---- MODULE Spec2Model ----
(***************************************************************************)
(* Model of the "get it done" task list (src/main.py): one table `task`,   *)
(* the handler index (GET / and POST /) and the handler delete_task        *)
(* (POST /delete-task).  Each request runs in its own worker with its own  *)
(* SQLAlchemy session; a handler is split into steps at every statement   *)
(* that talks to the database, so that concurrent requests interleave.     *)
(***************************************************************************)
EXTENDS Integers, Sequences, FiniteSets, TLC

VARIABLES table, autoInc, created, pc, loc, resp

vars == <<table, autoInc, created, pc, loc, resp>>

(* ---------------------------- bounds ----------------------------------- *)

\* Largest auto-increment value handed out: POST / is accepted while the
\* INSERTs in flight cannot take a value above MaxId.
MaxId == 2

\* The request workers of the web server (two requests may be in flight).
Workers == {"w1", "w2"}

\* Values of the form field `task` that clients post (the empty string is
\* a value a browser sends for an empty text input).
TaskFields == {"", "a"}

(* ----------------------- text <-> integer ------------------------------ *)

Digits == <<"0", "1", "2", "3", "4", "5", "6", "7", "8", "9">>

IsDigit(c) == \E d \in 1..10 : Digits[d] = c

DigitVal(c) == (CHOOSE d \in 1..10 : Digits[d] = c) - 1

\* Decimal text of a natural number, as the page writes a task id into the
\* hidden form field.
RECURSIVE NatStr(_)
NatStr(n) == IF n < 10 THEN <<Digits[n + 1]>>
             ELSE NatStr(n \div 10) \o <<Digits[(n % 10) + 1]>>

IntStr(i) == IF i < 0 THEN <<"-">> \o NatStr(-i) ELSE NatStr(i)

\* str.strip() as int() applies it: leading and trailing blanks go.
RECURSIVE LStrip(_)
LStrip(s) == IF s # <<>> /\ Head(s) = " " THEN LStrip(Tail(s)) ELSE s

RECURSIVE RStrip(_)
RStrip(s) == IF s # <<>> /\ s[Len(s)] = " "
             THEN RStrip(SubSeq(s, 1, Len(s) - 1)) ELSE s

Strip(s) == RStrip(LStrip(s))

\* The digits of an int() literal: digits, with single underscores allowed
\* between two digits.
ValidDigits(s) ==
    /\ s # <<>>
    /\ \A k \in 1..Len(s) :
          \/ IsDigit(s[k])
          \/ /\ s[k] = "_"
             /\ k > 1 /\ k < Len(s)
             /\ IsDigit(s[k - 1]) /\ IsDigit(s[k + 1])

RECURSIVE DigitsVal(_, _)
DigitsVal(s, acc) ==
    IF s = <<>> THEN acc
    ELSE IF Head(s) = "_" THEN DigitsVal(Tail(s), acc)
    ELSE DigitsVal(Tail(s), 10 * acc + DigitVal(Head(s)))

\* Mutant of PyInt: text that is no integer literal reads as 0.
PyInt_Lenient(text) ==
    LET s    == Strip(text)
        sign == IF s # <<>> /\ Head(s) = "-" THEN -1 ELSE 1
        body == IF s # <<>> /\ Head(s) \in {"-", "+"} THEN Tail(s) ELSE s
    IN  IF ValidDigits(body) THEN <<sign * DigitsVal(body, 0)>> ELSE <<0>>

\* int(text): <<v>> when the text is an integer literal, <<>> when int()
\* raises ValueError.
PyInt(text) ==
    LET s    == Strip(text)
        sign == IF s # <<>> /\ Head(s) = "-" THEN -1 ELSE 1
        body == IF s # <<>> /\ Head(s) \in {"-", "+"} THEN Tail(s) ELSE s
    IN  IF ValidDigits(body) THEN <<sign * DigitsVal(body, 0)>> ELSE <<>>

\* Values of the form field `task-id` that are integer literals: what the
\* page renders for an id, and other spellings of an integer.
IntegerFields ==
    {IntStr(i) : i \in -1..(MaxId + 1)}
    \cup {<<" ", "1">>, <<"+", "1">>, <<"0", "2">>, <<"1", "_", "0">>, <<"2", " ">>}

\* Values of the form field `task-id` that are no integer literal.
GarbageFields ==
    {<<>>, <<"x">>, <<"1", "x">>, <<"1", ".", "0">>, <<"-">>, <<"1", " ", "2">>,
     <<"_", "1">>, <<" ">>}

\* Values of the form field `task-id` that clients post.
TaskIdFields == IntegerFields \cup GarbageFields

(* ------------------------------ Task ----------------------------------- *)

\* Mutant of NewTask: the record starts completed.
NewTask_Completed(name, id) == [id |-> id, name |-> name, completed |-> TRUE]

\* Task(name): a new record, not completed; the id is the primary key the
\* storage assigns on INSERT.
NewTask(name, id) == [id |-> id, name |-> name, completed |-> FALSE]

Ids(t) == {t[k].id : k \in DOMAIN t}

IsPending(r) == ~r.completed
IsCompleted(r) == r.completed

\* Task.query.filter_by(completed=False).all()
PendingOf(t) == SelectSeq(t, IsPending)

\* Task.query.filter_by(completed=True).all()
CompletedOf(t) == SelectSeq(t, IsCompleted)

\* Mutant of GetTask: an id that matches no row yields the first row.
GetTask_Fallback(t, id) ==
    IF id \in Ids(t)
    THEN <<t[CHOOSE k \in DOMAIN t : t[k].id = id]>>
    ELSE IF t # <<>> THEN <<t[1]>> ELSE <<>>

\* Task.query.get(task_id): <<row>> or <<>> (None).
GetTask(t, id) ==
    IF id \in Ids(t)
    THEN <<t[CHOOSE k \in DOMAIN t : t[k].id = id]>>
    ELSE <<>>

\* Mutant of UpdateCompleted: the row is deleted.
UpdateCompleted_Deletes(t, id) ==
    LET Keep(r) == r.id # id IN SelectSeq(t, Keep)

\* Mutant of UpdateCompleted: the flag is toggled.
UpdateCompleted_Toggles(t, id) ==
    [k \in DOMAIN t |-> IF t[k].id = id THEN [t[k] EXCEPT !.completed = ~t[k].completed]
                        ELSE t[k]]

\* Mutant of UpdateCompleted: nothing is written.
UpdateCompleted_Noop(t, id) == t

\* Mutant of UpdateCompleted: the UPDATE has no WHERE clause.
UpdateCompleted_All(t, id) == [k \in DOMAIN t |-> [t[k] EXCEPT !.completed = TRUE]]

\* UPDATE task SET completed = 1 WHERE id = :id
UpdateCompleted(t, id) ==
    [k \in DOMAIN t |-> IF t[k].id = id THEN [t[k] EXCEPT !.completed = TRUE]
                        ELSE t[k]]

\* INSERT INTO task (name, completed) VALUES (...), committed.
InsertRow(t, row) == Append(t, row)

(* --------------------------- worker state ------------------------------ *)

\* The locals of a handler: request.method and request.form, task_name,
\* new_task.id, task_id, task (<<>> is None), whether the session holds a
\* changed object, and tasks.
NoLoc == [method |-> "", form |-> <<>>, name |-> "", new_id |-> 0, task_id |-> 0,
          task |-> <<>>, dirty |-> FALSE, tasks |-> <<>>]

\* The response a step sends to the client, with the worker that sends it
\* and what its request was about; NoResp in a step that sends none.
NoResp == [worker |-> "", route |-> "", status |-> 0, err |-> "", step |-> "",
           form |-> <<>>, name |-> "", new_id |-> 0, task_id |-> 0,
           wrote |-> FALSE, changed |-> FALSE,
           tasks |-> <<>>, completed_tasks |-> <<>>]

Fault(w, route, status, err) ==
    [NoResp EXCEPT !.worker = w, !.route = route, !.status = status, !.err = err]

Init ==
    /\ table = <<>>
    /\ autoInc = 1
    /\ created = 0
    /\ pc = [w \in Workers |-> "idle"]
    /\ loc = [w \in Workers |-> NoLoc]
    /\ resp = NoResp

\* request.form as the handlers read it: <<>> when the field is absent
\* (request.form[...] raises BadRequestKeyError), <<v>> when it holds v.
TaskForms == {<<>>} \cup {<<n>> : n \in TaskFields}

TaskIdForms == {<<>>} \cup {<<f>> : f \in TaskIdFields}

(* ------------------------- index: GET / and POST / --------------------- *)

\* GET /: nothing is read from the form; the handler goes to the queries.
IndexGet(w) ==
    /\ pc[w] = "idle"
    /\ pc' = [pc EXCEPT ![w] = "idx_q1"]
    /\ loc' = [loc EXCEPT ![w] = [NoLoc EXCEPT !.method = "GET"]]
    /\ resp' = NoResp
    /\ UNCHANGED <<table, autoInc, created>>

\* POST /: task_name = request.form['task']; new_task = Task(task_name);
\* db.session.add(new_task).  An absent field ends the request with 400.
IndexPost(w) ==
    /\ pc[w] = "idle"
    /\ autoInc + Cardinality({v \in Workers : pc[v] = "idx_commit"}) <= MaxId
    /\ \E form \in TaskForms :
          IF form = <<>>
          THEN /\ pc' = pc
               /\ loc' = [loc EXCEPT ![w] = NoLoc]
               /\ resp' = Fault(w, "index", 400, "BadRequestKeyError")
          ELSE /\ pc' = [pc EXCEPT ![w] = "idx_commit"]
               /\ loc' = [loc EXCEPT ![w] = [NoLoc EXCEPT !.method = "POST", !.form = form,
                                                          !.name = form[1]]]
               /\ resp' = NoResp
    /\ UNCHANGED <<table, autoInc, created>>

\* db.session.commit() of POST /: the INSERT takes the next auto-increment
\* value and the row becomes visible with the COMMIT.
IndexCommit(w) ==
    /\ pc[w] = "idx_commit"
    /\ table' = InsertRow(table, NewTask(loc[w].name, autoInc))
    /\ autoInc' = autoInc + 1
    /\ created' = created + 1
    /\ loc' = [loc EXCEPT ![w].new_id = autoInc]
    /\ pc' = [pc EXCEPT ![w] = "idx_q1"]
    /\ resp' = NoResp

\* tasks = Task.query.filter_by(completed=False).all()
IndexQueryPending(w) ==
    /\ pc[w] = "idx_q1"
    /\ loc' = [loc EXCEPT ![w].tasks = PendingOf(table)]
    /\ pc' = [pc EXCEPT ![w] = "idx_q2"]
    /\ resp' = NoResp
    /\ UNCHANGED <<table, autoInc, created>>

\* completed_tasks = Task.query.filter_by(completed=True).all();
\* return render_template(..., tasks=tasks, completed_tasks=completed_tasks)
IndexQueryCompleted(w) ==
    /\ pc[w] = "idx_q2"
    /\ resp' = [NoResp EXCEPT !.worker = w, !.route = "index", !.status = 200,
                              !.name = loc[w].name,
                              !.new_id = loc[w].new_id,
                              !.tasks = loc[w].tasks,
                              !.completed_tasks = CompletedOf(table)]
    /\ loc' = [loc EXCEPT ![w] = NoLoc]
    /\ pc' = [pc EXCEPT ![w] = "idle"]
    /\ UNCHANGED <<table, autoInc, created>>

(* ----------------------- delete_task: POST /delete-task ---------------- *)

\* int(request.form['task-id']) for one posted form: an absent field raises
\* BadRequestKeyError (400), text that is no integer raises ValueError (500).
ReadTaskId(form) ==
    IF form = <<>>
    THEN [form |-> form, err |-> "BadRequestKeyError", status |-> 400, task_id |-> 0]
    ELSE IF PyInt(form[1]) = <<>>
    THEN [form |-> form, err |-> "ValueError", status |-> 500, task_id |-> 0]
    ELSE [form |-> form, err |-> "", status |-> 0, task_id |-> PyInt(form[1])[1]]

\* The outcomes of reading the posted forms.
TaskIdReads == {ReadTaskId(form) : form \in TaskIdForms}

\* task_id = int(request.form['task-id'])
DeleteParse(w) ==
    /\ pc[w] = "idle"
    /\ \E r \in TaskIdReads :
          IF r.err # ""
          THEN /\ pc' = pc
               /\ loc' = [loc EXCEPT ![w] = NoLoc]
               /\ resp' = [Fault(w, "delete-task", r.status, r.err) EXCEPT !.form = r.form]
          ELSE /\ pc' = [pc EXCEPT ![w] = "del_get"]
               /\ loc' = [loc EXCEPT ![w] = [NoLoc EXCEPT !.method = "POST", !.form = r.form,
                                                          !.task_id = r.task_id]]
               /\ resp' = NoResp
    /\ UNCHANGED <<table, autoInc, created>>

\* task = Task.query.get(task_id)
DeleteGet(w) ==
    /\ pc[w] = "del_get"
    /\ loc' = [loc EXCEPT ![w].task = GetTask(table, loc[w].task_id)]
    /\ pc' = [pc EXCEPT ![w] = "del_set"]
    /\ resp' = NoResp
    /\ UNCHANGED <<table, autoInc, created>>

\* task.completed = True; db.session.add(task).  With task = None the
\* assignment raises AttributeError and the request ends with 500.  The
\* object is dirty only when the loaded value differs from the new one.
DeleteSet(w) ==
    /\ pc[w] = "del_set"
    /\ IF loc[w].task = <<>>
       THEN /\ pc' = [pc EXCEPT ![w] = "idle"]
            /\ loc' = [loc EXCEPT ![w] = NoLoc]
            /\ resp' = [Fault(w, "delete-task", 500, "AttributeError")
                           EXCEPT !.task_id = loc[w].task_id]
       ELSE /\ pc' = [pc EXCEPT ![w] = "del_commit"]
            /\ loc' = [loc EXCEPT ![w].dirty = ~loc[w].task[1].completed,
                                  ![w].task = <<[loc[w].task[1] EXCEPT !.completed = TRUE]>>]
            /\ resp' = NoResp
    /\ UNCHANGED <<table, autoInc, created>>

\* db.session.commit(); return redirect('/'): a dirty object is written
\* with an UPDATE of its completed column, keyed by its primary key.  The
\* response notes whether an UPDATE was issued and whether it changed a row.
DeleteCommit(w) ==
    /\ pc[w] = "del_commit"
    /\ table' = IF loc[w].dirty THEN UpdateCompleted(table, loc[w].task[1].id) ELSE table
    /\ resp' = [NoResp EXCEPT !.worker = w, !.route = "delete-task", !.status = 302,
                              !.task_id = loc[w].task_id,
                              !.wrote = loc[w].dirty,
                              !.changed = (table' # table)]
    /\ loc' = [loc EXCEPT ![w] = NoLoc]
    /\ pc' = [pc EXCEPT ![w] = "idle"]
    /\ UNCHANGED <<autoInc, created>>

(* --------------------------- storage failure --------------------------- *)

DbSteps == {"idx_commit", "idx_q1", "idx_q2", "del_get", "del_commit"}

RouteOf(p) == IF p \in {"idx_commit", "idx_q1", "idx_q2"} THEN "index" ELSE "delete-task"

\* Mutant of RolledBack: the flag set before a failed COMMIT stays stored.
RolledBack_KeepsUpdate(t, w) ==
    IF pc[w] = "del_commit" /\ loc[w].dirty
    THEN [k \in DOMAIN t |-> IF t[k].id = loc[w].task_id
                             THEN [t[k] EXCEPT !.completed = TRUE] ELSE t[k]]
    ELSE t

\* What a failed statement or COMMIT leaves in the table: the transaction is
\* rolled back when the session is removed at the end of the request, so
\* neither the new row nor the changed flag of session w is stored.
RolledBack(t, w) == t

\* The backend is unreachable or rejects the statement: the exception is not
\* handled, the request ends with 500.  A failed INSERT may have consumed
\* its auto-increment value.
StorageFailure(w) ==
    /\ pc[w] \in DbSteps
    /\ table' = RolledBack(table, w)
    /\ \E burn \in {0, 1} :
          autoInc' = IF pc[w] = "idx_commit" THEN autoInc + burn ELSE autoInc
    /\ resp' = [Fault(w, RouteOf(pc[w]), 500, "StorageFailure")
                   EXCEPT !.step = pc[w], !.name = loc[w].name,
                          !.new_id = loc[w].new_id, !.task_id = loc[w].task_id]
    /\ loc' = [loc EXCEPT ![w] = NoLoc]
    /\ pc' = [pc EXCEPT ![w] = "idle"]
    /\ UNCHANGED created

Next ==
    \E w \in Workers :
        \/ IndexGet(w)
        \/ IndexPost(w)
        \/ IndexCommit(w)
        \/ IndexQueryPending(w)
        \/ IndexQueryCompleted(w)
        \/ DeleteParse(w)
        \/ DeleteGet(w)
        \/ DeleteSet(w)
        \/ DeleteCommit(w)
        \/ StorageFailure(w)

Spec == Init /\ [][Next]_vars

(* ------------------------------ properties ----------------------------- *)

Rows(t) == {t[k] : k \in DOMAIN t}

\* Worker w takes the step.
Steps(w) == pc'[w] # pc[w] \/ resp'.worker = w

\* C1: the pending list and the completed list together hold exactly as many
\* tasks as creations have succeeded, whatever requests succeeded or failed.
C1_ListsSumToCreations ==
    Len(PendingOf(table)) + Len(CompletedOf(table)) = created

\* C1 witness: two creations succeeded, one task is pending and one
\* completed, and a request has just failed.
C1_Witness ==
    /\ created = 2
    /\ Len(PendingOf(table)) = 1
    /\ Len(CompletedOf(table)) = 1
    /\ resp.status = 500

\* C2: completion is one-way: a task that is completed is still stored and
\* completed after every step of every request.
C2_CompletionOneWay ==
    [][\A r \in Rows(table) :
          r.completed => \E q \in Rows(table') : q.id = r.id /\ q.completed]_vars

\* C2 witness: a delete-task request for a task that is already completed
\* has been answered with the redirect.
C2_Witness ==
    /\ resp.route = "delete-task"
    /\ resp.status = 302
    /\ ~resp.wrote
    /\ resp.task_id \in Ids(CompletedOf(table))

\* C3: the commit of a delete-task request for a task that is pending moves
\* it from the pending list to the completed list; the pending count drops
\* by one and the completed count grows by one.
C3_CompleteMovesTask ==
    [][\A w \in Workers :
          ( /\ pc[w] = "del_commit"
            /\ resp'.worker = w
            /\ resp'.status = 302
            /\ loc[w].task_id \in Ids(PendingOf(table)) )
          => /\ loc[w].task_id \in Ids(CompletedOf(table'))
             /\ loc[w].task_id \notin Ids(PendingOf(table'))
             /\ Len(PendingOf(table')) = Len(PendingOf(table)) - 1
             /\ Len(CompletedOf(table')) = Len(CompletedOf(table)) + 1]_vars

\* C3 witness: a delete-task request was answered with the redirect, its
\* UPDATE changed the row, and the task is in the completed list while
\* another task is still pending.
C3_Witness ==
    /\ resp.route = "delete-task"
    /\ resp.status = 302
    /\ resp.changed
    /\ resp.task_id \in Ids(CompletedOf(table))
    /\ Len(PendingOf(table)) >= 1

\* A delete-task request of w whose task-id matches no stored task.
NoSuchTask(w) ==
    \/ pc[w] \in {"del_get", "del_set", "del_commit"} /\ loc[w].task_id \notin Ids(table)
    \/ pc[w] = "del_set" /\ loc[w].task = <<>>

\* C4: a delete-task request whose task-id matches no stored task changes
\* no task, and once the lookup has found nothing it ends with a fault.
C4_UnknownIdChangesNothing ==
    [][\A w \in Workers :
          (NoSuchTask(w) /\ Steps(w))
          => /\ table' = table
             /\ pc[w] = "del_set" => (resp'.status = 500 /\ pc'[w] = "idle")
             /\ pc[w] # "del_commit"]_vars

\* C4 witness: a request for an unknown id ended with the unhandled
\* AttributeError while tasks are stored.
C4_Witness ==
    /\ resp.err = "AttributeError"
    /\ resp.task_id \notin Ids(table)
    /\ Len(table) >= 1

\* C5: the commit of POST / with name n appends one row named n, not
\* completed, with an id no stored row has; the completed list is unchanged;
\* when no stored task was named n the pending list then holds exactly one
\* task named n; and the lists of the response to that POST include the new
\* task.
C5_CreateAddsOneTask ==
    [][\A w \in Workers :
          /\ (pc[w] = "idx_commit" /\ pc'[w] = "idx_q1")
             => LET new == table'[Len(table')]
                    n   == loc[w].name
                IN  /\ Len(table') = Len(table) + 1
                    /\ SubSeq(table', 1, Len(table)) = table
                    /\ new.name = n
                    /\ ~new.completed
                    /\ new.id \notin Ids(table)
                    /\ loc'[w].new_id = new.id
                    /\ CompletedOf(table') = CompletedOf(table)
                    /\ (\A r \in Rows(table) : r.name # n)
                       => Cardinality({k \in DOMAIN PendingOf(table') :
                                          PendingOf(table')[k].name = n}) = 1
          /\ (resp'.worker = w /\ resp'.status = 200 /\ resp'.new_id # 0)
             => \E r \in Rows(resp'.tasks) \cup Rows(resp'.completed_tasks) :
                   r.id = resp'.new_id /\ r.name = resp'.name]_vars

\* C5 witness: the response to a POST / lists the new task as pending, next
\* to a task stored before.
C5_Witness ==
    /\ resp.status = 200
    /\ resp.new_id # 0
    /\ resp.new_id \in Ids(resp.tasks)
    /\ Len(table) >= 2

\* C6: POST / whose task field is absent or empty fails and creates no task.
C6_EmptyTaskRejected ==
    [][\A w \in Workers :
          /\ (pc[w] = "idle" /\ resp'.worker = w /\ resp'.route = "index")
             => (resp'.status = 400 /\ table' = table /\ pc'[w] = "idle")
          /\ (pc[w] = "idx_commit" /\ loc[w].form = <<"">> /\ Steps(w))
             => (table' = table /\ resp'.status # 0)]_vars

\* C7: a delete-task request whose task-id field is absent or is no integer
\* literal fails when the field is read, before any lookup, and no task
\* changes.
C7_BadTaskIdFails ==
    [][\A w \in Workers :
          /\ (pc[w] = "idle" /\ pc'[w] = "del_get")
             => (loc'[w].form # <<>> /\ loc'[w].form[1] \notin GarbageFields)
          /\ (resp'.worker = w /\ resp'.route = "delete-task"
                /\ resp'.err \in {"BadRequestKeyError", "ValueError"})
             => /\ pc[w] = "idle" /\ pc'[w] = "idle"
                /\ resp'.status \in {400, 500}
                /\ table' = table]_vars

\* C7 witness: a request whose task-id is text that is no integer ended with
\* ValueError while a task is pending.
C7_Witness ==
    /\ resp.route = "delete-task"
    /\ resp.err = "ValueError"
    /\ resp.form = <<<<"1", "x">>>>
    /\ 1 \in Ids(PendingOf(table))

C9_ConcurrentCompleteSameId ==
    [][\A w \in Workers :
          (pc[w] = "del_commit" /\ resp'.worker = w /\ resp'.status = 302)
          => /\ Len(table') = Len(table)
             /\ \A k \in DOMAIN table :
                   table'[k] = IF table[k].id = loc[w].task_id
                               THEN [table[k] EXCEPT !.completed = TRUE]
                               ELSE table[k]
             /\ loc[w].task_id \in Ids(CompletedOf(table'))]_vars

\* C9 witness: a delete-task request that loaded its task as pending issued
\* its UPDATE after the other request for the same id had committed, while a
\* task created meanwhile is pending.
C9_Witness ==
    /\ resp.route = "delete-task"
    /\ resp.status = 302
    /\ resp.wrote
    /\ ~resp.changed
    /\ resp.task_id \in Ids(CompletedOf(table))
    /\ Len(PendingOf(table)) >= 1

\* The stored ids are pairwise distinct.
UniqueIds == \A j, k \in DOMAIN table : j # k => table[j].id # table[k].id

\* C10: stored ids are pairwise distinct; no step removes a task or changes
\* an id or a name; a step of a delete-task request for id i changes nothing
\* but the completed flag of task i; a step of GET / changes nothing.
C10_OnlyCompletedFlagChanges ==
    /\ []UniqueIds
    /\ [][/\ \A r \in Rows(table) :
                \E q \in Rows(table') : q.id = r.id /\ q.name = r.name
          /\ \A w \in Workers :
                /\ (pc[w] \in {"del_get", "del_set", "del_commit"} /\ Steps(w))
                   => /\ Len(table') = Len(table)
                      /\ \A k \in DOMAIN table :
                            /\ table[k].id # loc[w].task_id => table'[k] = table[k]
                            /\ table'[k].id = table[k].id
                            /\ table'[k].name = table[k].name
                      /\ autoInc' = autoInc
                /\ (loc[w].method = "GET" /\ Steps(w))
                   => (table' = table /\ autoInc' = autoInc /\ created' = created)]_vars

\* C10 witness: with two tasks stored, a delete-task request completed one
\* and the other is still pending.
C10_Witness ==
    /\ Len(table) = 2
    /\ resp.route = "delete-task"
    /\ resp.status = 302
    /\ resp.changed
    /\ Len(PendingOf(table)) = 1

====
